---- MODULE Spec2Model ----
(***************************************************************************)
(* The two WatermarkApp controllers of the repository as one state         *)
(* machine: src/Watermark_app.py (colour and opacity controls, keeps       *)
(* original_image) and src/main.py (white opaque text, one image field).   *)
(* Every Tk callback is one action.  Images are pixel grids; the Pillow    *)
(* calls the callbacks make (convert, Image.new, textbbox, text,           *)
(* alpha_composite) are operators that compute what the library computes,  *)
(* with integer arithmetic as in its C code.  Glyph rasters are scaled     *)
(* down: a truetype glyph is 2x2 with an antialiased right column, a       *)
(* default bitmap glyph is 1x1; a space paints nothing.                    *)
(***************************************************************************)
EXTENDS Integers, Sequences, FiniteSets

VARIABLES
    variant,         \* which source file runs: "Watermark_app.py" or "main.py"
    arial_available, \* whether ImageFont.truetype("arial.ttf", 30) finds the font
    mainloop,        \* "running" while root.mainloop() dispatches callbacks
    original_image,  \* self.original_image (Watermark_app.py only)
    image,           \* self.image
    tk_image,        \* self.tk_image, the picture on the canvas
    text_color,      \* self.text_color (Watermark_app.py only)
    opacity_scale,   \* value of the self.opacity_scale widget
    text_entry,      \* content of the self.text_entry widget
    last,            \* the latest UI event: callback, message box raised, file written
    file_loaded      \* history: the file the latest successful upload opened

vars == <<variant, arial_available, mainloop, original_image, image, tk_image, text_color,
          opacity_scale, text_entry, last, file_loaded>>

----------------------------------------------------------------------------
(* Bounds and inputs *)

\* number of image files the open dialog can return
MaxFile == 2

\* margin between the text and the bottom-right corner
Margin == 20

\* point size of the truetype font
FontSize == 30

\* side of the thumbnail box
ThumbMax == 400

Files == 1 .. MaxFile

NoPath == 0

White == <<255, 255, 255>>

Colors == {White, <<200, 0, 50>>}

Opacities == {0, 128, 255}

InitText == <<"E","n","t","e","r"," ","W","a","t","e","r","m","a","r","k"," ","T","e","x","t">>

Texts == {InitText, <<>>, <<" ", "\t">>, <<" ", "H", "i">>}

SavePaths == {"out.png", "out.jpg"}

Whitespace == {" ", "\t", "\n"}

----------------------------------------------------------------------------
(* Images *)

\* A pixel is one 32-bit word as Pillow stores it: the R, G, B bytes and the
\* alpha byte (the pad byte, always 255, in an RGB image).  The alpha byte is
\* kept offset by 128 so that the word stays in the signed 32-bit range.
Pack(r, g, b, a) == r + 256 * g + 65536 * b + 16777216 * (a - 128)

Band(p, k) ==
    CASE k = 1 -> p % 256
      [] k = 2 -> (p \div 256) % 256
      [] k = 3 -> (p \div 65536) % 256
      [] k = 4 -> (p \div 16777216) + 128

Coords(size) == 1 .. (size[1] * size[2])

XOf(size, i) == (i - 1) % size[1]

YOf(size, i) == (i - 1) \div size[1]

None == [mode |-> "None", size |-> <<0, 0>>, px |-> <<>>]

\* content of the image files: odd files are RGB, even files RGBA; file 1 is
\* smaller than any text plus margin, the others have room for a short text
FileMode(f) == IF f % 2 = 1 THEN "RGB" ELSE "RGBA"

FileSize(f) == IF f = 1 THEN <<3, 2>> ELSE <<22 + f, 20 + f>>

FilePixel(f, x, y) ==
    Pack((40 * x + 7 * f) % 256, (90 * y + 11) % 256, ((x + y) % 2) * 255,
         IF FileMode(f) = "RGB" THEN 255
         ELSE CASE (x + y) % 3 = 0 -> 255
                [] (x + y) % 3 = 1 -> 128
                [] OTHER -> 0)

Image_open(f) ==
    [mode |-> FileMode(f),
     size |-> FileSize(f),
     px   |-> [i \in Coords(FileSize(f)) |->
                 FilePixel(f, XOf(FileSize(f), i), YOf(FileSize(f), i))]]

Max(a, b) == IF a >= b THEN a ELSE b

\* Image.thumbnail((400, 400)): an image inside the box is left alone; a larger
\* one is shrunk keeping its aspect ratio (the resampling filter is not
\* modelled: the nearest source pixel is taken)
thumbnail(im) ==
    LET w == im.size[1]
        h == im.size[2]
    IN  IF ThumbMax >= w /\ ThumbMax >= h THEN im
        ELSE LET nw == IF w >= h THEN ThumbMax ELSE Max((ThumbMax * w) \div h, 1)
                 nh == IF w >= h THEN Max((ThumbMax * h) \div w, 1) ELSE ThumbMax
                 ns == <<nw, nh>>
             IN  [mode |-> im.mode, size |-> ns,
                  px |-> [i \in Coords(ns) |->
                            im.px[((YOf(ns, i) * h) \div nh) * w
                                  + ((XOf(ns, i) * w) \div nw) + 1]]]

copy(im) == [mode |-> im.mode, size |-> im.size, px |-> im.px]

\* Image.convert between RGB and RGBA: to RGBA an RGB pixel becomes opaque, to
\* RGB the alpha byte is dropped (the pad byte is 255)
convert(im, mode) ==
    [mode |-> mode, size |-> im.size,
     px |-> [i \in Coords(im.size) |->
               LET p == im.px[i]
               IN  IF mode = "RGBA" /\ im.mode = "RGBA" THEN p
                   ELSE Pack(Band(p, 1), Band(p, 2), Band(p, 3), 255)]]

Image_new(mode, size, color) ==
    [mode |-> mode, size |-> size,
     px |-> [i \in Coords(size) |-> Pack(color[1], color[2], color[3], color[4])]]

----------------------------------------------------------------------------
(* Fonts and text *)

RECURSIVE lstrip(_)
lstrip(s) == IF s # <<>> /\ Head(s) \in Whitespace THEN lstrip(Tail(s)) ELSE s

RECURSIVE rstrip(_)
rstrip(s) ==
    IF s # <<>> /\ s[Len(s)] \in Whitespace THEN rstrip(SubSeq(s, 1, Len(s) - 1)) ELSE s

strip(s) == rstrip(lstrip(s))

load_default == [name |-> "default", size |-> 10, truetype |-> FALSE]

truetype(name, size) == [name |-> name, size |-> size, truetype |-> TRUE]

\* try: ImageFont.truetype("arial.ttf", 30)  except IOError: load_default()
select_font(available) ==
    IF available THEN truetype("arial.ttf", FontSize) ELSE load_default

GlyphW(font) == IF font.truetype THEN font.size \div 15 ELSE 1

GlyphH(font) == IF font.truetype THEN font.size \div 15 ELSE 1

\* a truetype raster starts below the drawing origin, a bitmap one at it
GlyphTop(font) == IF font.truetype THEN 1 ELSE 0

\* draw.textbbox(xy, text, font): (left, top, right, bottom)
textbbox(xy, text, font) ==
    <<xy[1], xy[2] + GlyphTop(font),
      xy[1] + Len(text) * GlyphW(font), xy[2] + GlyphTop(font) + GlyphH(font)>>

\* coverage of the text raster at offset (dx, dy) from its top-left corner: a
\* space paints nothing, a truetype glyph has an antialiased right column
getmask(text, font, dx, dy) ==
    IF dx < 0 \/ dy < 0 \/ dx >= Len(text) * GlyphW(font) \/ dy >= GlyphH(font) THEN 0
    ELSE IF text[dx \div GlyphW(font) + 1] \in Whitespace THEN 0
    ELSE IF font.truetype /\ dx % GlyphW(font) = GlyphW(font) - 1 THEN 128
    ELSE 255

SHIFTFORDIV255(a) == ((a \div 256) + a) \div 256

DIV255(a) == SHIFTFORDIV255(a + 128)

BLEND(mask, in1, in2) == DIV255(in1 * (255 - mask) + in2 * mask)

\* draw.text(xy, text, fill, font) on an RGBA layer: the ink is pasted through
\* the text raster, all four bands alike
draw_text(layer, xy, text, fill, font) ==
    LET x0 == xy[1]
        y0 == xy[2] + GlyphTop(font)
    IN  [mode |-> layer.mode, size |-> layer.size,
         px |-> [i \in Coords(layer.size) |->
                   LET m == getmask(text, font, XOf(layer.size, i) - x0,
                                    YOf(layer.size, i) - y0)
                       p == layer.px[i]
                   IN  IF m = 0 THEN p
                       ELSE Pack(BLEND(m, Band(p, 1), fill[1]),
                                 BLEND(m, Band(p, 2), fill[2]),
                                 BLEND(m, Band(p, 3), fill[3]),
                                 BLEND(m, Band(p, 4), fill[4]))]]

\* one pixel of Image.alpha_composite: src over dst
composite_pixel(dst, src) ==
    IF Band(src, 4) = 0 THEN dst
    ELSE LET sa      == Band(src, 4)
             blend   == Band(dst, 4) * (255 - sa)
             outa255 == sa * 255 + blend
             coef1   == (sa * 255 * 255 * 128) \div outa255
             coef2   == 255 * 128 - coef1
             out(k)  == SHIFTFORDIV255(Band(src, k) * coef1 + Band(dst, k) * coef2
                                       + 128 * 128) \div 128
         IN  Pack(out(1), out(2), out(3), SHIFTFORDIV255(outa255 + 128))

alpha_composite(im1, im2) ==
    [mode |-> "RGBA", size |-> im1.size,
     px |-> [i \in Coords(im1.size) |-> composite_pixel(im1.px[i], im2.px[i])]]

\* variant of position that keeps the anchor on the canvas
position_clamped(size, text_width, text_height) ==
    <<Max(size[1] - text_width - Margin, 0), Max(size[2] - text_height - Margin, 0)>>

\* position = (width - text_width - 20, height - text_height - 20)
position(size, text_width, text_height) ==
    <<size[1] - text_width - Margin, size[2] - text_height - Margin>>

----------------------------------------------------------------------------
(* The callbacks *)

NoNotice == "none"

NoFile == ""

\* what a UI event did: its callback, the message box it raised, whether the
\* dialog it opened was answered ("chosen"), dismissed ("cancelled") or never
\* opened ("none"), and the file it wrote
Event(h, n, d, f) == [handler |-> h, notice |-> n, dialog |-> d, saved |-> f]

\* variant of draw_watermark that grows the canvas until the text and its
\* margin fit
draw_watermark_fit(rgba, watermark_text, fill, font) ==
    \E bbox \in {textbbox(<<0, 0>>, watermark_text, font)} :
    \E size \in {<<Max(rgba.size[1], bbox[3] - bbox[1] + Margin),
                   Max(rgba.size[2], bbox[4] - bbox[2] + Margin)>>} :
    \E grown \in {[mode |-> "RGBA", size |-> size,
                   px |-> [i \in Coords(size) |->
                             IF XOf(size, i) < rgba.size[1] /\ YOf(size, i) < rgba.size[2]
                             THEN rgba.px[YOf(size, i) * rgba.size[1] + XOf(size, i) + 1]
                             ELSE Pack(255, 255, 255, 255)]]} :
    \E txt_layer \in {Image_new("RGBA", size, <<255, 255, 255, 0>>)} :
    \E xy \in {position(size, bbox[3] - bbox[1], bbox[4] - bbox[2])} :
    \E drawn \in {draw_text(txt_layer, xy, watermark_text, fill, font)} :
    \E watermarked_image \in {alpha_composite(grown, drawn)} :
        image' = convert(watermarked_image, "RGB")

\* the body of add_watermark after its checks, shared by the two variants: the
\* text layer, the bounding box, the anchor, the drawing, the composition and
\* the flattening into self.image; each local of the code is bound once
draw_watermark(rgba, watermark_text, fill, font) ==
    \E txt_layer \in {Image_new("RGBA", rgba.size, <<255, 255, 255, 0>>)} :
    \E bbox \in {textbbox(<<0, 0>>, watermark_text, font)} :
    \E xy \in {position(rgba.size, bbox[3] - bbox[1], bbox[4] - bbox[2])} :
    \E drawn \in {draw_text(txt_layer, xy, watermark_text, fill, font)} :
    \E watermarked_image \in {alpha_composite(rgba, drawn)} :
        image' = convert(watermarked_image, "RGB")

\* ImageTk.PhotoImage(image): a Tk picture holding a copy of the image's pixels
PhotoImage(im) == [mode |-> im.mode, size |-> im.size, px |-> im.px]

\* display_image (inlined in main.py): the canvas shows the new self.image
display_image == tk_image' = PhotoImage(image')

Init ==
    /\ variant \in {"Watermark_app.py", "main.py"}
    /\ arial_available \in BOOLEAN
    /\ mainloop = "running"
    /\ original_image = None
    /\ image = None
    /\ tk_image = None
    /\ text_color = White
    /\ opacity_scale = 255
    /\ text_entry = InitText
    /\ last = Event("__init__", NoNotice, "none", NoFile)
    /\ file_loaded = NoPath

\* the user edits the entry widget
text_entry_insert ==
    /\ mainloop = "running"
    /\ \E t \in Texts : text_entry' = t
    /\ last' = Event("text_entry", NoNotice, "none", NoFile)
    /\ UNCHANGED <<variant, arial_available, mainloop, original_image, image, tk_image,
                   text_color, opacity_scale, file_loaded>>

\* the user moves the opacity slider
opacity_scale_set ==
    /\ variant = "Watermark_app.py"
    /\ mainloop = "running"
    /\ \E o \in Opacities : opacity_scale' = o
    /\ last' = Event("opacity_scale", NoNotice, "none", NoFile)
    /\ UNCHANGED <<variant, arial_available, mainloop, original_image, image, tk_image,
                   text_color, text_entry, file_loaded>>

(* src/Watermark_app.py *)

\* variant of upload_image that forgets self.image = self.original_image.copy()
upload_image_no_copy ==
    /\ variant = "Watermark_app.py"
    /\ mainloop = "running"
    /\ \E file_path \in {NoPath} \cup Files :
         IF file_path # NoPath
         THEN /\ original_image' = thumbnail(Image_open(file_path))
              /\ file_loaded' = file_path
              /\ last' = Event("upload_image", NoNotice, "chosen", NoFile)
         ELSE /\ UNCHANGED <<original_image, file_loaded>>
              /\ last' = Event("upload_image", NoNotice, "cancelled", NoFile)
    /\ UNCHANGED <<variant, arial_available, mainloop, image, tk_image, text_color,
                   opacity_scale, text_entry>>

upload_image ==
    /\ variant = "Watermark_app.py"
    /\ mainloop = "running"
    /\ \E file_path \in {NoPath} \cup Files :
         IF file_path # NoPath
         THEN /\ original_image' = thumbnail(Image_open(file_path))
              /\ image' = copy(original_image')
              /\ display_image
              /\ file_loaded' = file_path
              /\ last' = Event("upload_image", NoNotice, "chosen", NoFile)
         ELSE /\ UNCHANGED <<original_image, image, tk_image, file_loaded>>
              /\ last' = Event("upload_image", NoNotice, "cancelled", NoFile)
    /\ UNCHANGED <<variant, arial_available, mainloop, text_color, opacity_scale,
                   text_entry>>

choose_color ==
    /\ variant = "Watermark_app.py"
    /\ mainloop = "running"
    /\ \E color_code \in {<<>>} \cup Colors :
         IF color_code # <<>>
         THEN /\ text_color' = color_code
              /\ last' = Event("choose_color", NoNotice, "chosen", NoFile)
         ELSE /\ UNCHANGED text_color
              /\ last' = Event("choose_color", NoNotice, "cancelled", NoFile)
    /\ UNCHANGED <<variant, arial_available, mainloop, original_image, image, tk_image,
                   opacity_scale, text_entry, file_loaded>>

\* variant of add_watermark that tests the text before the image
add_watermark_text_first ==
    /\ variant = "Watermark_app.py"
    /\ mainloop = "running"
    /\ IF strip(text_entry) = <<>>
       THEN /\ last' = Event("add_watermark", "Please enter watermark text", "none", NoFile)
            /\ UNCHANGED <<image, tk_image>>
       ELSE IF original_image = None
       THEN /\ last' = Event("add_watermark", "Please upload an image first", "none", NoFile)
            /\ UNCHANGED <<image, tk_image>>
       ELSE /\ \E rgba \in {convert(copy(original_image), "RGBA")},
                  watermark_text \in {strip(text_entry)},
                  font \in {select_font(arial_available)},
                  fill \in {text_color \o <<opacity_scale>>} :
                 draw_watermark(rgba, watermark_text, fill, font)
            /\ display_image
            /\ last' = Event("add_watermark", NoNotice, "none", NoFile)
    /\ UNCHANGED <<variant, arial_available, mainloop, original_image, text_color,
                   opacity_scale, text_entry, file_loaded>>

\* variant of add_watermark that converts self.image before it tests the text
add_watermark_convert_first ==
    /\ variant = "Watermark_app.py"
    /\ mainloop = "running"
    /\ IF original_image = None
       THEN /\ last' = Event("add_watermark", "Please upload an image first", "none", NoFile)
            /\ UNCHANGED <<image, tk_image>>
       ELSE IF strip(text_entry) = <<>>
       THEN /\ last' = Event("add_watermark", "Please enter watermark text", "none", NoFile)
            /\ image' = convert(copy(original_image), "RGBA")
            /\ UNCHANGED tk_image
       ELSE /\ \E rgba \in {convert(copy(original_image), "RGBA")},
                  watermark_text \in {strip(text_entry)},
                  font \in {select_font(arial_available)},
                  fill \in {text_color \o <<opacity_scale>>} :
                 draw_watermark(rgba, watermark_text, fill, font)
            /\ display_image
            /\ last' = Event("add_watermark", NoNotice, "none", NoFile)
    /\ UNCHANGED <<variant, arial_available, mainloop, original_image, text_color,
                   opacity_scale, text_entry, file_loaded>>

\* variant of add_watermark that draws with alpha 255 whatever the slider says
add_watermark_opaque ==
    /\ variant = "Watermark_app.py"
    /\ mainloop = "running"
    /\ IF original_image = None
       THEN /\ last' = Event("add_watermark", "Please upload an image first", "none", NoFile)
            /\ UNCHANGED <<image, tk_image>>
       ELSE IF strip(text_entry) = <<>>
       THEN /\ last' = Event("add_watermark", "Please enter watermark text", "none", NoFile)
            /\ UNCHANGED <<image, tk_image>>
       ELSE /\ \E rgba \in {convert(copy(original_image), "RGBA")},
                  watermark_text \in {strip(text_entry)},
                  font \in {select_font(arial_available)},
                  fill \in {text_color \o <<255>>} :
                 draw_watermark(rgba, watermark_text, fill, font)
            /\ display_image
            /\ last' = Event("add_watermark", NoNotice, "none", NoFile)
    /\ UNCHANGED <<variant, arial_available, mainloop, original_image, text_color,
                   opacity_scale, text_entry, file_loaded>>

\* variant of add_watermark without the except branch: the IOError of a missing
\* font leaves the callback after self.image was converted
add_watermark_no_fallback ==
    /\ variant = "Watermark_app.py"
    /\ mainloop = "running"
    /\ IF original_image = None
       THEN /\ last' = Event("add_watermark", "Please upload an image first", "none", NoFile)
            /\ UNCHANGED <<image, tk_image>>
       ELSE IF strip(text_entry) = <<>>
       THEN /\ last' = Event("add_watermark", "Please enter watermark text", "none", NoFile)
            /\ UNCHANGED <<image, tk_image>>
       ELSE IF ~arial_available
       THEN /\ image' = convert(copy(original_image), "RGBA")
            /\ UNCHANGED tk_image
            /\ last' = Event("add_watermark", NoNotice, "none", NoFile)
       ELSE /\ \E rgba \in {convert(copy(original_image), "RGBA")},
                  watermark_text \in {strip(text_entry)},
                  font \in {select_font(arial_available)},
                  fill \in {text_color \o <<opacity_scale>>} :
                 draw_watermark(rgba, watermark_text, fill, font)
            /\ display_image
            /\ last' = Event("add_watermark", NoNotice, "none", NoFile)
    /\ UNCHANGED <<variant, arial_available, mainloop, original_image, text_color,
                   opacity_scale, text_entry, file_loaded>>

\* variant of add_watermark whose missing-image branch closes the window
add_watermark_fatal ==
    /\ variant = "Watermark_app.py"
    /\ mainloop = "running"
    /\ IF original_image = None
       THEN /\ last' = Event("add_watermark", "Please upload an image first", "none", NoFile)
            /\ mainloop' = "exited"
            /\ UNCHANGED <<image, tk_image>>
       ELSE IF strip(text_entry) = <<>>
       THEN /\ last' = Event("add_watermark", "Please enter watermark text", "none", NoFile)
            /\ UNCHANGED <<image, tk_image, mainloop>>
       ELSE /\ \E rgba \in {convert(copy(original_image), "RGBA")},
                  watermark_text \in {strip(text_entry)},
                  font \in {select_font(arial_available)},
                  fill \in {text_color \o <<opacity_scale>>} :
                 draw_watermark(rgba, watermark_text, fill, font)
            /\ display_image
            /\ last' = Event("add_watermark", NoNotice, "none", NoFile)
            /\ UNCHANGED mainloop
    /\ UNCHANGED <<variant, arial_available, original_image, text_color,
                   opacity_scale, text_entry, file_loaded>>

add_watermark ==
    /\ variant = "Watermark_app.py"
    /\ mainloop = "running"
    /\ IF original_image = None
       THEN /\ last' = Event("add_watermark", "Please upload an image first", "none", NoFile)
            /\ UNCHANGED <<image, tk_image>>
       ELSE IF strip(text_entry) = <<>>
       THEN /\ last' = Event("add_watermark", "Please enter watermark text", "none", NoFile)
            /\ UNCHANGED <<image, tk_image>>
       ELSE /\ \E rgba \in {convert(copy(original_image), "RGBA")},
                  watermark_text \in {strip(text_entry)},
                  font \in {select_font(arial_available)},
                  fill \in {text_color \o <<opacity_scale>>} :
                 draw_watermark(rgba, watermark_text, fill, font)
            /\ display_image
            /\ last' = Event("add_watermark", NoNotice, "none", NoFile)
    /\ UNCHANGED <<variant, arial_available, mainloop, original_image, text_color,
                   opacity_scale, text_entry, file_loaded>>

\* self.image.save(file_path): the format follows the extension.  JPEG cannot
\* hold RGBA: the OSError leaves the callback without a message box, and the
\* file it opened may or may not remain
Image_save(im, file_path) ==
    IF file_path = "out.jpg" /\ im.mode = "RGBA"
    THEN {Event("save_image", NoNotice, "chosen", NoFile),
          Event("save_image", NoNotice, "chosen", file_path)}
    ELSE {Event("save_image", "Image saved successfully", "chosen", file_path)}

save_image ==
    /\ variant = "Watermark_app.py"
    /\ mainloop = "running"
    /\ IF image = None
       THEN last' = Event("save_image", "No image to save", "none", NoFile)
       ELSE \E file_path \in {NoFile} \cup SavePaths :
              IF file_path # NoFile
              THEN last' \in Image_save(image, file_path)
              ELSE last' = Event("save_image", NoNotice, "cancelled", NoFile)
    /\ UNCHANGED <<variant, arial_available, mainloop, original_image, image, tk_image,
                   text_color, opacity_scale, text_entry, file_loaded>>

(* src/main.py *)

main_upload_image ==
    /\ variant = "main.py"
    /\ mainloop = "running"
    /\ \E file_path \in {NoPath} \cup Files :
         IF file_path # NoPath
         THEN /\ image' = thumbnail(Image_open(file_path))
              /\ display_image
              /\ file_loaded' = file_path
              /\ last' = Event("upload_image", NoNotice, "chosen", NoFile)
         ELSE /\ UNCHANGED <<image, tk_image, file_loaded>>
              /\ last' = Event("upload_image", NoNotice, "cancelled", NoFile)
    /\ UNCHANGED <<variant, arial_available, mainloop, original_image, text_color,
                   opacity_scale, text_entry>>

main_add_watermark ==
    /\ variant = "main.py"
    /\ mainloop = "running"
    /\ IF image = None
       THEN /\ last' = Event("add_watermark", "Please upload an image first", "none", NoFile)
            /\ UNCHANGED <<image, tk_image>>
       ELSE IF strip(text_entry) = <<>>
       THEN /\ last' = Event("add_watermark", "Please enter watermark text", "none", NoFile)
            /\ UNCHANGED <<image, tk_image>>
       ELSE /\ \E watermark_image \in {convert(image, "RGBA")},
                  watermark_text \in {strip(text_entry)},
                  font \in {select_font(arial_available)},
                  fill \in {<<255, 255, 255, 255>>} :
                 draw_watermark(watermark_image, watermark_text, fill, font)
            /\ display_image
            /\ last' = Event("add_watermark", NoNotice, "none", NoFile)
    /\ UNCHANGED <<variant, arial_available, mainloop, original_image, text_color,
                   opacity_scale, text_entry, file_loaded>>

main_save_image ==
    /\ variant = "main.py"
    /\ mainloop = "running"
    /\ IF image = None
       THEN last' = Event("save_image", "No image to save", "none", NoFile)
       ELSE \E file_path \in {NoFile} \cup SavePaths :
              IF file_path # NoFile
              THEN last' \in Image_save(image, file_path)
              ELSE last' = Event("save_image", NoNotice, "cancelled", NoFile)
    /\ UNCHANGED <<variant, arial_available, mainloop, original_image, image, tk_image,
                   text_color, opacity_scale, text_entry, file_loaded>>

Next ==
    \/ text_entry_insert
    \/ opacity_scale_set
    \/ upload_image
    \/ choose_color
    \/ add_watermark
    \/ save_image
    \/ main_upload_image
    \/ main_add_watermark
    \/ main_save_image

Spec == Init /\ [][Next]_vars

----------------------------------------------------------------------------
(* Properties *)

App == "Watermark_app.py"

\* the image add_watermark composes from, and the ink it draws with
Source == IF variant = App THEN original_image ELSE image

Fill == IF variant = App THEN text_color \o <<opacity_scale>> ELSE <<255, 255, 255, 255>>

\* the latest event was an add_watermark that went through
Watermarked == Event("add_watermark", NoNotice, "none", NoFile)

\* the result the compositing steps give for a source image, a text, an ink,
\* a font and an anchor: RGBA source, transparent text layer, text drawn at
\* the anchor, layer composed over the source, result flattened to RGB
composite_at(source, text, fill, font, xy) ==
    convert(alpha_composite(convert(source, "RGBA"),
                            draw_text(Image_new("RGBA", source.size, <<255, 255, 255, 0>>),
                                      xy, text, fill, font)),
            "RGB")

\* the same with the anchor 20 left of and above the bottom-right corner
composite(source, text, fill, font) ==
    LET bbox == textbbox(<<0, 0>>, text, font)
    IN  composite_at(source, text, fill, font,
                     <<source.size[1] - (bbox[3] - bbox[1]) - 20,
                       source.size[2] - (bbox[4] - bbox[2]) - 20>>)

\* the image the latest successful upload decoded
LoadedImage == thumbnail(Image_open(file_loaded))

TextWidth ==
    LET bbox == textbbox(<<0, 0>>, strip(text_entry), select_font(arial_available))
    IN  bbox[3] - bbox[1]

TextHeight ==
    LET bbox == textbbox(<<0, 0>>, strip(text_entry), select_font(arial_available))
    IN  bbox[4] - bbox[2]

\* C1: while no image has been loaded, add_watermark and save_image (either
\* variant) only raise their missing-image message: nothing is written, no
\* image appears, and image, the displayed picture, original_image, text_color
\* and the opacity are left as they were.
C1_MissingImage ==
    [][(file_loaded = NoPath /\ last'.handler \in {"add_watermark", "save_image"})
        => /\ last'.notice = (IF last'.handler = "add_watermark"
                              THEN "Please upload an image first"
                              ELSE "No image to save")
           /\ last'.saved = NoFile
           /\ image' = None
           /\ original_image' = None
           /\ UNCHANGED <<image, tk_image, original_image, text_color, opacity_scale>>]_vars

C1_Witness ==
    /\ variant = App
    /\ file_loaded = NoPath
    /\ strip(text_entry) = <<>>
    /\ last = Event("add_watermark", "Please upload an image first", "none", NoFile)

\* C2: with an image loaded, add_watermark on an empty or whitespace-only text
\* raises the empty-text message and leaves image, the displayed picture,
\* original_image, text_color and the opacity as they were, watermarked earlier
\* or not.
C2_EmptyText ==
    [][(file_loaded # NoPath /\ strip(text_entry) = <<>> /\ last'.handler = "add_watermark")
        => /\ last'.notice = "Please enter watermark text"
           /\ last'.saved = NoFile
           /\ UNCHANGED <<image, tk_image, original_image, text_color, opacity_scale>>]_vars

C2_Witness ==
    /\ variant = App
    /\ last = Event("add_watermark", "Please enter watermark text", "none", NoFile)
    /\ text_entry # <<>>
    /\ original_image.mode = "RGBA"
    /\ image.mode = "RGB"

\* C3: once an image is loaded, every later event other than a new upload leaves
\* the loaded image held in a field of the application, and every add_watermark
\* that goes through composes its result from that loaded image.
C3_OriginalPreserved ==
    [][(file_loaded # NoPath /\ last'.handler # "upload_image")
        => /\ LoadedImage \in {image', original_image'}
           /\ (last' = Watermarked
                 => image' = composite(LoadedImage, strip(text_entry), Fill,
                                       select_font(arial_available)))]_vars

\* the same statement for Watermark_app.py alone
C3_InWatermarkApp ==
    [][(variant = App /\ file_loaded # NoPath /\ last'.handler # "upload_image")
        => /\ original_image' = LoadedImage
           /\ (last' = Watermarked
                 => image' = composite(LoadedImage, strip(text_entry), Fill,
                                       select_font(arial_available)))]_vars

\* C4: an add_watermark that directly follows an add_watermark with the same
\* text, colour, opacity and font leaves the current image equal to the one the
\* first produced.
C4_Idempotent ==
    [][(last = Watermarked /\ last' = Watermarked) => image' = image]_vars

\* the same statement for Watermark_app.py alone
C4_InWatermarkApp ==
    [][(variant = App /\ last = Watermarked /\ last' = Watermarked) => image' = image]_vars

\* C5: once an image is loaded, the current image always has the width and the
\* height of the loaded image, and one pixel for each of its positions, however
\* many watermarks were applied and however large the text.
C5_SameSize ==
    file_loaded # NoPath
      => /\ image.size = LoadedImage.size
         /\ Len(image.px) = LoadedImage.size[1] * LoadedImage.size[2]

C5_Witness ==
    /\ last = Watermarked
    /\ TextWidth > image.size[1]
    /\ TextHeight + Margin > image.size[2]
    /\ image.size = LoadedImage.size

\* C6: in Watermark_app.py an add_watermark at opacity 0 yields the source
\* converted to RGBA and flattened to RGB, pixel for pixel, for every text,
\* colour and anchor.
C6_OpacityZero ==
    [][(variant = App /\ opacity_scale = 0 /\ last' = Watermarked)
        => image' = convert(convert(original_image, "RGBA"), "RGB")]_vars

\* the text raster lies on the canvas, the ink is not white, the source has
\* transparent and opaque pixels
C6_Witness ==
    /\ variant = App
    /\ last = Watermarked
    /\ opacity_scale = 0
    /\ text_color # White
    /\ original_image.mode = "RGBA"
    /\ TextWidth + Margin <= image.size[1]
    /\ TextHeight + Margin <= image.size[2]
    /\ image = convert(convert(original_image, "RGBA"), "RGB")

\* C7: add_watermark with an image and a non-blank text always goes through,
\* and its result is the text drawn at x = width - textWidth - 20,
\* y = height - textHeight - 20, negative coordinates included.
C7_Anchor ==
    [][(file_loaded # NoPath /\ strip(text_entry) # <<>> /\ last'.handler = "add_watermark")
        => /\ last' = Watermarked
           /\ image' = composite_at(Source, strip(text_entry), Fill,
                                    select_font(arial_available),
                                    <<Source.size[1] - TextWidth - 20,
                                      Source.size[2] - TextHeight - 20>>)]_vars

C7_Witness ==
    /\ last = Watermarked
    /\ image.mode = "RGB"
    /\ image.size[1] - TextWidth - 20 < 0
    /\ image.size[2] - TextHeight - 20 >= 0

\* C8: add_watermark with an image and a non-blank text raises no message and
\* yields the watermark drawn with arial.ttf at size 30 when that font loads,
\* and with the built-in default font when it does not.
C8_FontFallback ==
    [][(file_loaded # NoPath /\ strip(text_entry) # <<>> /\ last'.handler = "add_watermark")
        => /\ last'.notice = NoNotice
           /\ image'.mode = "RGB"
           /\ image' = composite(Source, strip(text_entry), Fill,
                                 IF arial_available THEN truetype("arial.ttf", 30)
                                 ELSE load_default)]_vars

\* the default font drew a visible watermark
C8_Witness ==
    /\ ~arial_available
    /\ last = Watermarked
    /\ image # convert(convert(LoadedImage, "RGBA"), "RGB")

\* C9: in every reachable state, after an error message as well, the main loop
\* runs and every callback of the variant can be taken; an upload that loads an
\* image can be taken, and with an image and a non-blank text add_watermark can
\* be taken and yields a watermarked RGB image without a message.
C9_NothingFatal ==
    /\ mainloop = "running"
    /\ ENABLED text_entry_insert
    /\ IF variant = App
       THEN /\ ENABLED opacity_scale_set
            /\ ENABLED choose_color
            /\ ENABLED save_image
            /\ ENABLED (upload_image /\ original_image' # None /\ image' # None)
            /\ IF original_image # None /\ strip(text_entry) # <<>>
               THEN ENABLED (add_watermark /\ last' = Watermarked /\ image'.mode = "RGB")
               ELSE ENABLED add_watermark
       ELSE /\ ENABLED main_save_image
            /\ ENABLED (main_upload_image /\ image' # None)
            /\ IF image # None /\ strip(text_entry) # <<>>
               THEN ENABLED (main_add_watermark /\ last' = Watermarked
                                               /\ image'.mode = "RGB")
               ELSE ENABLED main_add_watermark

\* an error message was just raised where the named font does not load
C9_Witness ==
    /\ variant = App
    /\ ~arial_available
    /\ last.notice = "Please upload an image first"
    /\ ENABLED (upload_image /\ original_image' # None)

====
